---- MODULE Spec2Model ----
(***************************************************************************)
(* orphanage.js: finding and removing orphaned documents of one sharded    *)
(* namespace.  The cluster (catalog, balancer flags, the documents held by *)
(* each shard) is the environment; Orphans.find builds a ScanResult whose  *)
(* cursor and remove operations are the program under study.               *)
(***************************************************************************)
EXTENDS Integers, Sequences, FiniteSets, TLC

\* ------------------------------------------------------------------ bounds
\* documents a "bulk" cell holds beyond one full delete batch
MaxExtra == 1
\* how far next() may be called past the end of badChunks
MaxOverrun == 1
\* delete errors within one remove() or removeAll() call
MaxErrors == 1
\* number of (shard, key) cells that hold documents initially
MaxCells == 2

\* ------------------------------------------------------- program constants
\* idsToRemove.length >= 100
BatchSize == 100

\* ------------------------------------------------------------ the cluster
\* config.shards, in the order the catalog returns them
ShardList == <<"A", "B", "C">>
Shards == {ShardList[i] : i \in 1..Len(ShardList)}
\* shard-key values; chunk bounds range over 0..KeyTop (0 plays MinKey, KeyTop MaxKey)
Keys == 0..1
KeyTop == 2
\* bsonWoCompare treats the empty object {} as smaller than every key document
EmptyObj == -1
\* the value of an expression that evaluates to undefined
Undefined == 0

\* a document is <<shard-key value, serial>>; the pair is its _id on its shard
KeyOf(d) == d[1]
\* the elements of a sequence
Range(q) == {q[i] : i \in 1..Len(q)}

VARIABLES
    isdbgrid,         \* the answer of { isdbgrid: 1 }.ok
    balancerState,    \* sh.getBalancerState()
    balancerRunning,  \* sh.isBalancerRunning()
    precise,          \* typeof bsonWoCompare !== 'undefined'
    catalog,          \* config.chunks of the namespace
    delivered,        \* the chunks in the order the cursor over config.chunks hands them on
    docs,             \* docs[s]: the namespace's documents on shard s, in shard-key index order
    active,           \* Shard.active
    paranoia,         \* Orphans._balancerParanoia
    found,            \* a ScanResult has been returned to the caller
    result,           \* the ScanResult: badChunks, count, shardCounts, _iter, ...
    heap,             \* the chunk objects badChunks refers to
    connections,      \* the closure variable `connections` of the ScanResult
    pc,               \* where the caller is: idle, removeAll, remove
    run,              \* the locals of the running remove()/removeAll()
    op,               \* the last completed call: its name, whether it threw, its value
    log,              \* what the last call did (connections, queries, deletes)
    visited,          \* what next() returned since the last rewind()
    dirty,            \* a bulk delete was issued since the result was built
    globalAuthDoc,    \* Orphanage.globalAuthDoc
    shardAuthDocs,    \* Orphanage.shardAuthDocs
    accepts           \* accepts[s]: the credentials admin.auth succeeds with on shard s

vars == <<isdbgrid, balancerState, balancerRunning, precise, catalog, delivered, docs, active,
          paranoia, found, result, heap, connections, pc, run, op, log,
          visited, dirty, globalAuthDoc, shardAuthDocs, accepts>>

cluster == <<isdbgrid, precise, catalog, delivered, accepts>>
balancer == <<balancerState, balancerRunning>>
auth == <<globalAuthDoc, shardAuthDocs>>
config == <<active, paranoia, auth>>
scan == <<found, result, heap, connections, visited, dirty>>

\* ------------------------------------------------------------ the catalog
\* a chunk document of config.chunks (the fields the program reads)
AllChunks == {c \in [min : Keys, max : 1..KeyTop, shard : Shards] : c.min < c.max}
\* config.chunks has a unique index on {ns, min}: no two chunks share a min
Catalogs == {cs \in SUBSET AllChunks : \A c, d \in cs : c.min = d.min => c = d}
\* no two chunks of the catalog overlap
NonOverlapping(cs) == \A c, d \in cs : c # d => (c.max <= d.min \/ d.max <= c.min)

\* chunks.find({ns: namespace}).sort({min: 1}): the chunks as a sequence, ascending min
RECURSIVE SortByMin(_)
SortByMin(cs) ==
    IF cs = {} THEN <<>>
    ELSE LET first == CHOOSE c \in cs : \A d \in cs : c.min <= d.min
         IN <<first>> \o SortByMin(cs \ {first})

\* bsonWoCompare(a, b) < 0, = 0, > 0 on key documents ({} is EmptyObj)
bsonWoCompare(a, b) == IF a < b THEN -1 ELSE IF a = b THEN 0 ELSE 1

\* ---------------------------------------------------------- the documents
\* the documents of shard s whose key lies in [lo, hi), in index order:
\* find().min(lo).max(hi)
RangeDocsIn(coll, lo, hi) == SelectSeq(coll, LAMBDA d : lo <= KeyOf(d) /\ KeyOf(d) < hi)
RangeDocs(s, lo, hi) == RangeDocsIn(docs[s], lo, hi)
\* the collection after remove({_id: {$in: ids}})
Without(coll, ids) == SelectSeq(coll, LAMBDA d : d \notin ids)

\* ------------------------------------------------ Orphanage.shardConnection
\* globalAuthDoc: null, and an absent entry of shardAuthDocs: the falsy value, kept
\* in the shape of a credential document that no stored credential equals
Null == [user |-> "", pwd |-> ""]
\* the credential documents {'user': user, 'pwd': pwd} the caller may store
AuthDocs == [user : {"u"}, pwd : {"p", "q"}]
\* copyDoc(doc): a new object with each property of doc
copyDoc(doc) == [prop \in DOMAIN doc |-> doc[prop]]
\* admin.auth(authDoc) on the shard: 1 when the shard accepts the credential
Auth(shard, authDoc) == IF authDoc \in accepts[shard] THEN 1 ELSE 0
\* one authentication attempt as the shard sees it
Attempt(shard, kind, authDoc) ==
    [shard |-> shard, kind |-> kind, doc |-> authDoc, ok |-> Auth(shard, authDoc)]

\* variant: the global credential is tried whatever the shard-specific result
FallsBackToGlobalAlways(res) == globalAuthDoc # Null

\* "if (admin.auth(authDoc) != 1 && this.globalAuthDoc)"
FallsBackToGlobal(res) == res # 1 /\ globalAuthDoc # Null

\* the authentication attempts shardConnection(shard) makes, in order
AuthAttempts(shard) ==
    IF shardAuthDocs[shard] # Null
    THEN LET first == Attempt(shard, "shard", copyDoc(shardAuthDocs[shard]))
         IN IF FallsBackToGlobal(first.ok)
            THEN <<first, Attempt(shard, "global", copyDoc(globalAuthDoc))>>
            ELSE <<first>>
    ELSE IF globalAuthDoc # Null
         THEN <<Attempt(shard, "global", copyDoc(globalAuthDoc))>>
         ELSE <<>>

\* the attempts of the shardConnection calls Shard.connections makes for shardConns
RECURSIVE ConnectionAuths(_)
ConnectionAuths(shardConns) ==
    IF shardConns = <<>> THEN <<>>
    ELSE AuthAttempts(Head(shardConns)) \o ConnectionAuths(Tail(shardConns))

\* -------------------------------------------------------- Shard.connections
\* variant: the active-shards filter is ignored
ShardConnectionsAll == ShardList

\* one connection per shard of config.shards, inactive shards skipped
ShardConnections ==
    SelectSeq(ShardList, LAMBDA s : ~(Cardinality(active) > 0 /\ s \notin active))

\* Orphans.find: "skip shards that have no data yet"
NonEmptyConnections(shardConns) ==
    SelectSeq(shardConns, LAMBDA s : Len(docs[s]) > 0)

\* ------------------------------------------------------------- the result
\* the ScanResult object as constructed, before the chunk iteration
NewResult == [badChunks |-> <<>>, maxRange |-> EmptyObj, lastMin |-> EmptyObj,
              count |-> 0, shardCounts |-> <<>>, iter |-> -1]
\* a chunk document as the cursor over config.chunks hands it to the callback
ChunkObject(c) == [min |-> c.min, max |-> c.max, shard |-> c.shard, orphanedOn |-> "",
                   orphanCount |-> 0, removed |-> FALSE, numRemoved |-> 0]
\* what a call has done so far: shards connected, chunks read, range queries issued,
\* balancer checks made, bulk deletes issued, remove() attempts (cursor index, result),
\* chunks printed,
\* delete errors seen; fresh: no bulk delete had been issued on the result when the
\* call began; failed: the positions in batches of the deletes that reported an error;
\* auths: the authentication attempts made on the shards
EmptyLog == [connected |-> <<>>, chunksRead |-> 0, ranged |-> {}, checks |-> 0,
             batches |-> <<>>, attempts |-> <<>>, errors |-> 0, fresh |-> FALSE,
             printed |-> <<>>, failed |-> {}, auths |-> <<>>]
\* the locals of remove() (toRemove, removedCount) and removeAll() (num)
NoRun == [toRemove |-> <<>>, removedCount |-> 0, num |-> 0, inAll |-> FALSE]

\* result.shardCounts[shard] after "keep count by shard"
AddShardCount(sc, s, n) ==
    IF s \in DOMAIN sc THEN [sc EXCEPT ![s] = @ + n] ELSE (s :> n) @@ sc

\* variant: the owner test is lost: every connected shard is queried
IsAuthoritativeNever(shard, chunk) == FALSE

\* "if (shard != chunk.shard)": the shard is the chunk's recorded owner
IsAuthoritative(shard, chunk) == shard = chunk.shard

\* "gather documents that should not exist here": the itcount() of the range query
OrphanCount(shard, chunk) == Len(RangeDocs(shard, chunk.min, chunk.max))

\* the body of "for (var shard in connections)" for chunk object ref, from the
\* j-th connection on; st is [res, hp, ranged]
RECURSIVE ScanShards(_, _, _, _)
ScanShards(st, ref, conns, j) ==
    IF j > Len(conns) THEN st
    ELSE LET shard == conns[j]
             chunk == st.hp[ref]
             orphanCount == OrphanCount(shard, chunk)
             res == st.res
         IN IF IsAuthoritative(shard, chunk) THEN ScanShards(st, ref, conns, j + 1)
            ELSE IF orphanCount > 0
            THEN ScanShards(
                    [res |-> [res EXCEPT !.count = @ + orphanCount,
                                         !.shardCounts = AddShardCount(@, shard, orphanCount),
                                         !.badChunks = Append(@, ref)],
                     hp |-> [st.hp EXCEPT ![ref].orphanedOn = shard,
                                          ![ref].orphanCount = orphanCount],
                     ranged |-> st.ranged \cup {<<shard, chunk.min, chunk.max>>},
                     ok |-> st.ok, read |-> st.read],
                    ref, conns, j + 1)
            ELSE ScanShards([st EXCEPT !.ranged = @ \cup {<<shard, chunk.min, chunk.max>>}],
                            ref, conns, j + 1)

\* variant: the order assertion is lost
SeenCheckNoAssert(res, chunk) ==
    IF ~precise THEN [res |-> res, ok |-> TRUE]
    ELSE IF bsonWoCompare(res.maxRange, chunk.max) < 0
         THEN [res |-> [res EXCEPT !.maxRange = chunk.max, !.lastMin = chunk.min], ok |-> TRUE]
         ELSE [res |-> res, ok |-> TRUE]

\* "check if we already seen this chunk": the result after the check, and whether
\* the assertion "Chunk order is screwed!" held
SeenCheck(res, chunk) ==
    IF ~precise THEN [res |-> res, ok |-> TRUE]
    ELSE IF bsonWoCompare(res.maxRange, chunk.max) < 0
         THEN [res |-> [res EXCEPT !.maxRange = chunk.max, !.lastMin = chunk.min], ok |-> TRUE]
         ELSE [res |-> res, ok |-> bsonWoCompare(res.lastMin, chunk.min) <= 0]

\* the forEach over the sorted chunks, from the i-th on; the i-th chunk object is
\* heap cell i
RECURSIVE ScanChunks(_, _, _, _)
ScanChunks(st, sorted, conns, i) ==
    IF i > Len(sorted) \/ ~st.ok THEN st
    ELSE LET seen == SeenCheck(st.res, sorted[i])
             st1 == [res |-> seen.res, hp |-> (i :> ChunkObject(sorted[i])) @@ st.hp,
                     ranged |-> st.ranged, ok |-> seen.ok, read |-> i]
         IN IF ~seen.ok THEN st1
            ELSE ScanChunks(ScanShards(st1, i, conns, 1), sorted, conns, i + 1)

\* the objects still referenced once find returns: those pushed onto badChunks
Referenced(hp, bad) == [r \in {bad[k] : k \in 1..Len(bad)} |-> hp[r]]
\* ------------------------------------------------------------ Orphans.find
\* variant: the assertion on sh.isBalancerRunning() is lost
PreconditionsNoRunning == isdbgrid /\ ~balancerState

\* the three assertions at the head of find
Preconditions == isdbgrid /\ ~balancerState /\ ~balancerRunning

\* the chunk iteration of find over the current catalog and documents
Scanned(conns) ==
    ScanChunks([res |-> NewResult, hp |-> <<>>, ranged |-> {}, ok |-> TRUE, read |-> 0],
               delivered, conns, 1)

find ==
    /\ pc = "idle"
    /\ IF ~Preconditions
       THEN /\ op' = [name |-> "find", threw |-> TRUE, val |-> 0]
            /\ log' = EmptyLog
            /\ UNCHANGED scan
       ELSE LET shardConns == ShardConnections
                conns == NonEmptyConnections(shardConns)
                st == Scanned(conns)
            IN /\ log' = [EmptyLog EXCEPT !.connected = shardConns,
                                          !.auths = ConnectionAuths(shardConns),
                                          !.chunksRead = st.read, !.ranged = st.ranged]
               /\ IF st.ok
                  THEN /\ found' = TRUE
                       /\ visited' = <<>>
                       /\ dirty' = FALSE
                       /\ result' = st.res
                       /\ heap' = Referenced(st.hp, st.res.badChunks)
                       /\ connections' = conns
                       /\ op' = [name |-> "find", threw |-> FALSE, val |-> st.res.count]
                  ELSE /\ op' = [name |-> "find", threw |-> TRUE, val |-> 0]
                       /\ UNCHANGED scan
    /\ UNCHANGED <<cluster, balancer, docs, config, pc, run>>

\* ------------------------------------------------------------ the cursor
hasNext == Len(result.badChunks) > result.iter + 1

\* this.badChunks[i] for a 0-based index i: a heap reference, or undefined
BadChunkAt(i) ==
    IF 0 <= i /\ i < Len(result.badChunks) THEN result.badChunks[i + 1] ELSE Undefined

current == BadChunkAt(result.iter)

\* variant: next() skips a chunk
NextIterSkips(i) == i + 2

\* variant: next() stays on the last chunk when there is no next one
NextIterClamps(i) == IF Len(result.badChunks) > i + 1 THEN i + 1 ELSE i

\* next(): this._iter++; return this.current()
NextIter(i) == i + 1

next ==
    /\ pc = "idle" /\ found
    /\ result.iter < Len(result.badChunks) + MaxOverrun
    /\ result' = [result EXCEPT !.iter = NextIter(@)]
    /\ visited' = Append(visited, BadChunkAt(NextIter(result.iter)))
    /\ op' = [name |-> "next", threw |-> FALSE, val |-> BadChunkAt(NextIter(result.iter))]
    /\ log' = EmptyLog
    /\ UNCHANGED <<cluster, balancer, docs, config, found, heap, connections, pc, run, dirty>>

\* variant: rewind() positions the cursor on the first chunk, one past the initial index
RewindIterFirst == NewResult.iter + 1

\* rewind(): this._iter = -1
RewindIter == -1

rewind ==
    /\ pc = "idle" /\ found
    /\ result' = [result EXCEPT !.iter = RewindIter]
    /\ visited' = <<>>
    /\ op' = [name |-> "rewind", threw |-> FALSE, val |-> 0]
    /\ log' = EmptyLog
    /\ UNCHANGED <<cluster, balancer, docs, config, found, heap, connections, pc, run, dirty>>
\* ------------------------------------------------------------ result.remove
\* variant: the "has already been removed" guard is lost
RemoveGuardNoRemoved(i, hp) ==
    IF result.count = 0 \/ Len(result.badChunks) = 0 THEN "nothing"
    ELSE IF i < 0 THEN "unexamined"
    ELSE IF i >= Len(result.badChunks) THEN "exhausted"
    ELSE IF BadChunkAt(i) = Undefined THEN "bad"
    ELSE "go"

\* the guards at the head of remove() with the cursor at index i and the chunk
\* objects hp: why it returns 0 at once, or "go"
RemoveGuard(i, hp) ==
    IF result.count = 0 \/ Len(result.badChunks) = 0 THEN "nothing"
    ELSE IF i < 0 THEN "unexamined"
    ELSE IF i >= Len(result.badChunks) THEN "exhausted"
    ELSE IF BadChunkAt(i) = Undefined THEN "bad"
    ELSE IF hp[BadChunkAt(i)].removed THEN "removed"
    ELSE "go"

\* variant: remove() works on the shard that owns the chunk
RemoveShardOwner(bchunk) == bchunk.shard

\* connections[bchunk.orphanedOn]: the shard remove() queries and deletes on
RemoveShard(bchunk) == bchunk.orphanedOn

\* naCollection.find({}, {_id: 1}).min(bchunk.min).max(bchunk.max) over documents dcs
ToRemove(dcs, bchunk) == RangeDocsIn(dcs[RemoveShard(bchunk)], bchunk.min, bchunk.max)

\* variant: every id the cursor yields goes into one bulk delete
BatchLenWhole(n) == n

\* how many ids the loop has pushed when the batch condition holds for a cursor with
\* n documents left: "idsToRemove.length >= 100 || (!toRemove.hasNext() && ...)"
BatchLen(n) == IF n >= BatchSize THEN BatchSize ELSE n

\* variant: the batch check reads only the balancer-enabled flag
BalancerStoppedFlagOnly == ~balancerState

\* "assert(!sh.getBalancerState() && !sh.isBalancerRunning(), ...)" holds
BalancerStopped == ~balancerState /\ ~balancerRunning

\* variant: the balancer check is made whatever the paranoia setting
ChecksBalancerAlways == TRUE

\* "if (this.parent._balancerParanoia)": the batch is preceded by the balancer check
ChecksBalancer == paranoia

\* variant: marking a chunk removed also clears its orphanCount
MarkRemovedClearsCount(hp, ref, n) ==
    [hp EXCEPT ![ref].removed = TRUE, ![ref].numRemoved = n, ![ref].orphanCount = 0]

\* "bchunk.removed = true; bchunk.numRemoved = removedCount"
MarkRemoved(hp, ref, n) == [hp EXCEPT ![ref].removed = TRUE, ![ref].numRemoved = n]

\* the range query remove() issues for bchunk, as the log records it
QueryOf(bchunk) == <<RemoveShard(bchunk), bchunk.min, bchunk.max>>

\* remove() is entered with the cursor at index i, chunk objects hp and documents
\* dcs: it returns 0 by a guard ("zero"), finds nothing to delete and marks the
\* chunk removed ("empty"), or has a cursor with documents to delete ("go")
RemoveEnters(i, hp, dcs) ==
    IF RemoveGuard(i, hp) # "go" THEN [kind |-> "zero", toRemove |-> <<>>, heap |-> hp, ranged |-> {}]
    ELSE LET ref == BadChunkAt(i)
             toRemove == ToRemove(dcs, hp[ref])
         IN IF toRemove = <<>>
            THEN [kind |-> "empty", toRemove |-> <<>>, heap |-> MarkRemoved(hp, ref, 0),
                  ranged |-> {QueryOf(hp[ref])}]
            ELSE [kind |-> "go", toRemove |-> toRemove, heap |-> hp,
                  ranged |-> {QueryOf(hp[ref])}]

\* the caller calls result.remove(): up to the first batch, or to its return
remove ==
    /\ pc = "idle" /\ found
    /\ LET e == RemoveEnters(result.iter, heap, docs)
           lg == [EmptyLog EXCEPT !.fresh = ~dirty, !.ranged = e.ranged]
       IN /\ heap' = e.heap
          /\ IF e.kind = "go"
             THEN /\ pc' = "remove"
                  /\ run' = [NoRun EXCEPT !.toRemove = e.toRemove]
                  /\ log' = lg
                  /\ op' = op
             ELSE /\ pc' = "idle"
                  /\ run' = NoRun
                  /\ log' = [lg EXCEPT !.attempts = <<<<result.iter, 0>>>>]
                  /\ op' = [name |-> "remove", threw |-> FALSE, val |-> 0]
    /\ UNCHANGED <<cluster, balancer, docs, config, found, result, connections, visited, dirty>>

\* --------------------------------------------------------- result.removeAll
\* variant: removeAll does not rewind
RemoveAllFromCursor(i) == i

\* the cursor index removeAll starts from when called with the cursor at index i:
\* "this.rewind()"
RemoveAllFrom(i) == RewindIter

\* hasNext() with the cursor at index i
HasNextAt(i) == Len(result.badChunks) > i + 1

\* "while (this.hasNext()) { this.next(); num += this.remove() }" with the cursor at
\* st.iter and every earlier remove() returned: on to the next chunk that has
\* documents to delete (pc "remove"), or to "return num" (pc "idle")
RECURSIVE RemoveAllLoop(_, _)
RemoveAllLoop(st, dcs) ==
    IF ~HasNextAt(st.iter)
    THEN [st EXCEPT !.pc = "idle", !.run = NoRun,
                    !.op = [name |-> "removeAll", threw |-> FALSE, val |-> st.run.num]]
    ELSE LET j == NextIter(st.iter)
             e == RemoveEnters(j, st.heap, dcs)
             st1 == [st EXCEPT !.iter = j, !.visited = Append(@, BadChunkAt(j)),
                               !.heap = e.heap, !.log.ranged = @ \cup e.ranged]
         IN IF e.kind = "go"
            THEN [st1 EXCEPT !.pc = "remove", !.run.toRemove = e.toRemove,
                             !.run.removedCount = 0]
            ELSE RemoveAllLoop([st1 EXCEPT !.log.attempts = Append(@, <<j, 0>>)], dcs)

\* the program state a running call continues from
Running == [pc |-> pc, iter |-> result.iter, visited |-> visited, heap |-> heap,
            log |-> log, run |-> run, op |-> op]

\* the program state becomes st
Becomes(st) ==
    /\ pc' = st.pc
    /\ result' = [result EXCEPT !.iter = st.iter]
    /\ visited' = st.visited
    /\ heap' = st.heap
    /\ log' = st.log
    /\ run' = st.run
    /\ op' = st.op

\* the caller calls result.removeAll(secs): up to the first batch, or to its return;
\* sleep(secs * 1000) changes nothing here
removeAll ==
    /\ pc = "idle" /\ found
    /\ LET from == RemoveAllFrom(result.iter)
       IN Becomes(RemoveAllLoop(
              [Running EXCEPT !.iter = from,
                              !.visited = IF from = RewindIter THEN <<>> ELSE @,
                              !.run = [NoRun EXCEPT !.inAll = TRUE],
                              !.log = [EmptyLog EXCEPT !.fresh = ~dirty]],
              docs))
    /\ UNCHANGED <<cluster, balancer, docs, config, found, connections, dirty>>

\* ------------------------------------------------------- the delete batches
\* variant: a remove() that met a delete error ends removeAll at once
RemoveReturnsAborts(v, hp, lg, dcs) ==
    LET st == [Running EXCEPT !.heap = hp,
                              !.log = [lg EXCEPT !.attempts = Append(@, <<result.iter, v>>)]]
    IN IF run.inAll /\ lg.errors = log.errors
       THEN Becomes(RemoveAllLoop(
                [st EXCEPT !.run = [NoRun EXCEPT !.num = run.num + v, !.inAll = TRUE]],
                dcs))
       ELSE Becomes([st EXCEPT !.pc = "idle", !.run = NoRun,
                               !.op = [name |-> IF run.inAll THEN "removeAll" ELSE "remove",
                                       threw |-> FALSE,
                                       val |-> IF run.inAll THEN run.num + v ELSE v]])

\* remove() returns v for the chunk at the cursor: to the caller, or into removeAll's
\* sum and on with its loop over the documents dcs
RemoveReturns(v, hp, lg, dcs) ==
    LET st == [Running EXCEPT !.heap = hp,
                              !.log = [lg EXCEPT !.attempts = Append(@, <<result.iter, v>>)]]
    IN IF run.inAll
       THEN Becomes(RemoveAllLoop(
                [st EXCEPT !.run = [NoRun EXCEPT !.num = run.num + v, !.inAll = TRUE]],
                dcs))
       ELSE Becomes([st EXCEPT !.pc = "idle", !.run = NoRun,
                               !.op = [name |-> "remove", threw |-> FALSE, val |-> v]])

\* variant: a failed balancer check is swallowed and the batch waits for the balancer
RemoveBatchHaltsWaits ==
    /\ pc = "remove"
    /\ ChecksBalancer /\ ~BalancerStopped
    /\ UNCHANGED vars

\* a batch is due and the balancer check fails: the assertion throws out of remove()
\* and, under removeAll, out of removeAll()
RemoveBatchHalts ==
    /\ pc = "remove"
    /\ ChecksBalancer /\ ~BalancerStopped
    /\ pc' = "idle"
    /\ run' = NoRun
    /\ op' = [name |-> IF run.inAll THEN "removeAll" ELSE "remove", threw |-> TRUE, val |-> 0]
    /\ log' = [log EXCEPT !.checks = @ + 1]
    /\ UNCHANGED <<cluster, balancer, docs, config, scan>>

\* the log after a batch of ids is sent to shard
Batched(shard, ids) ==
    [log EXCEPT !.checks = IF ChecksBalancer THEN @ + 1 ELSE @,
                !.batches = Append(@, [shard |-> shard, ids |-> ids, index |-> result.iter])]

\* a batch is due, the check (if any) passes, the bulk delete succeeds
RemoveBatchDeletes ==
    /\ pc = "remove"
    /\ ChecksBalancer => BalancerStopped
    /\ LET ref == current
           shard == RemoveShard(heap[ref])
           n == BatchLen(Len(run.toRemove))
           ids == Range(SubSeq(run.toRemove, 1, n))
           rest == SubSeq(run.toRemove, n + 1, Len(run.toRemove))
           removedCount == run.removedCount + n
           dcs == [docs EXCEPT ![shard] = Without(@, ids)]
       IN /\ docs' = dcs
          /\ dirty' = TRUE
          /\ IF rest = <<>>
             THEN RemoveReturns(removedCount, MarkRemoved(heap, ref, removedCount),
                                Batched(shard, ids), dcs)
             ELSE /\ run' = [run EXCEPT !.toRemove = rest, !.removedCount = removedCount]
                  /\ log' = Batched(shard, ids)
                  /\ UNCHANGED <<pc, op, heap, result, visited>>
    /\ UNCHANGED <<cluster, balancer, config, found, connections>>

\* variant: the error path marks the chunk removed like the success path
RemoveBatchFailsMarks ==
    /\ pc = "remove"
    /\ log.errors < MaxErrors
    /\ ChecksBalancer => BalancerStopped
    /\ LET shard == RemoveShard(heap[current])
           ids == Range(SubSeq(run.toRemove, 1, BatchLen(Len(run.toRemove))))
       IN \E gone \in {{}, ids} :
             LET dcs == [docs EXCEPT ![shard] = Without(@, gone)]
             IN /\ docs' = dcs
                /\ dirty' = TRUE
                /\ RemoveReturns(run.removedCount,
                                 MarkRemoved(heap, current, run.removedCount),
                                 [Batched(shard, ids) EXCEPT !.errors = @ + 1,
                                      !.failed = @ \cup {Len(log.batches) + 1}], dcs)
    /\ UNCHANGED <<cluster, balancer, config, found, connections>>

\* a batch is due, the check (if any) passes, getLastError() reports an error: the
\* delete has removed none of the batch, or all of it before the error came back
RemoveBatchFails ==
    /\ pc = "remove"
    /\ log.errors < MaxErrors
    /\ ChecksBalancer => BalancerStopped
    /\ LET shard == RemoveShard(heap[current])
           ids == Range(SubSeq(run.toRemove, 1, BatchLen(Len(run.toRemove))))
       IN \E gone \in {{}, ids} :
             LET dcs == [docs EXCEPT ![shard] = Without(@, gone)]
             IN /\ docs' = dcs
                /\ dirty' = TRUE
                /\ RemoveReturns(run.removedCount, heap,
                                 [Batched(shard, ids) EXCEPT !.errors = @ + 1,
                                      !.failed = @ \cup {Len(log.batches) + 1}], dcs)
    /\ UNCHANGED <<cluster, balancer, config, found, connections>>

\* ----------------------------------------------------------- result.listAll
\* "while (this.hasNext()) print(tojson(this.next()))" from cursor index i: the
\* chunks printed so far are out
RECURSIVE Iterate(_, _)
Iterate(i, out) ==
    IF Len(result.badChunks) > i + 1 /\ Len(out) < Len(result.badChunks) + MaxOverrun
    THEN Iterate(NextIter(i), Append(out, BadChunkAt(NextIter(i))))
    ELSE [iter |-> i, out |-> out]

\* variant: listAll does not rewind after printing
listAllStays ==
    /\ pc = "idle" /\ found
    /\ result' = [result EXCEPT !.iter = Iterate(RewindIter, <<>>).iter]
    /\ visited' = Iterate(RewindIter, <<>>).out
    /\ op' = [name |-> "listAll", threw |-> FALSE, val |-> 0]
    /\ log' = [EmptyLog EXCEPT !.printed = Iterate(RewindIter, <<>>).out]
    /\ UNCHANGED <<cluster, balancer, docs, config, found, heap, connections, pc, run, dirty>>

\* listAll(pretty): rewind, print every chunk, rewind
listAll ==
    /\ pc = "idle" /\ found
    /\ result' = [result EXCEPT !.iter = RewindIter]
    /\ visited' = <<>>
    /\ op' = [name |-> "listAll", threw |-> FALSE, val |-> 0]
    /\ log' = [EmptyLog EXCEPT !.printed = Iterate(RewindIter, <<>>).out]
    /\ UNCHANGED <<cluster, balancer, docs, config, found, heap, connections, pc, run, dirty>>

\* ------------------------------------------------------------ configuration
\* Orphans.setBalancerParanoia(b)
setBalancerParanoia ==
    /\ pc = "idle"
    /\ \E b \in BOOLEAN : paranoia' = b /\ b # paranoia
    /\ UNCHANGED <<cluster, balancer, docs, active, auth, scan, pc, run, op, log>>

\* Orphanage.global.auth(user, pwd)
globalAuth ==
    /\ pc = "idle"
    /\ \E doc \in AuthDocs : globalAuthDoc' = doc
    /\ op' = [name |-> "global.auth", threw |-> FALSE, val |-> 0]
    /\ log' = EmptyLog
    /\ UNCHANGED <<cluster, balancer, docs, active, paranoia, shardAuthDocs, scan, pc, run>>

\* Orphanage.shard.auth(shard, user, pwd)
shardAuth ==
    /\ pc = "idle"
    /\ \E shard \in Shards, doc \in AuthDocs :
          shardAuthDocs' = [shardAuthDocs EXCEPT ![shard] = doc]
    /\ op' = [name |-> "shard.auth", threw |-> FALSE, val |-> 0]
    /\ log' = EmptyLog
    /\ UNCHANGED <<cluster, balancer, docs, active, paranoia, globalAuthDoc, scan, pc, run>>

\* Orphanage.shardConnection(shard) for a shard of config.shards: connect,
\* authenticate, return the connection
shardConnection ==
    /\ pc = "idle"
    /\ \E shard \in Shards :
          log' = [EmptyLog EXCEPT !.connected = <<shard>>, !.auths = AuthAttempts(shard)]
    /\ op' = [name |-> "shardConnection", threw |-> FALSE, val |-> 0]
    /\ UNCHANGED <<cluster, balancer, docs, config, scan, pc, run>>

\* ---------------------------------------------------------- the environment
\* while a removal is in progress the balancer is enabled or disabled, starts or
\* ends a round (another session's sh.startBalancer(), or the balancer itself)
BalancerChanges ==
    /\ pc # "idle"
    /\ \E st \in BOOLEAN, rn \in BOOLEAN :
          /\ balancerState' = st /\ balancerRunning' = rn
          /\ <<st, rn>> # <<balancerState, balancerRunning>>
    /\ UNCHANGED <<cluster, docs, config, scan, pc, run, op, log>>

\* "sh.stopBalancer() -- Stop the balancer": disables it and waits for its round
stopBalancer ==
    /\ pc = "idle"
    /\ ~BalancerStopped
    /\ balancerState' = FALSE /\ balancerRunning' = FALSE
    /\ UNCHANGED <<cluster, docs, config, scan, pc, run, op, log>>

\* ------------------------------------------------------------ initial states
Cells == Shards \X Keys
\* the documents of a cluster in which cell <<s, k>> holds cnt[<<s, k>>] documents
RECURSIVE KeyRun(_, _, _)
KeyRun(cnt, s, k) ==
    IF k >= KeyTop THEN <<>>
    ELSE [n \in 1..cnt[<<s, k>>] |-> <<k, n>>] \o KeyRun(cnt, s, k + 1)
DocsOf(cnt) == [s \in Shards |-> KeyRun(cnt, s, 0)]
\* at most MaxCells cells hold documents: fewCount of them, or (at most one cell)
\* bulkCount
Populations(fewCount, bulkCount) ==
    {cnt \in [Cells -> {0, fewCount, bulkCount}] :
        /\ Cardinality({c \in Cells : cnt[c] > 0}) <= MaxCells
        /\ Cardinality({c \in Cells : cnt[c] = bulkCount}) <= 1}

InitProgram ==
    /\ paranoia = TRUE
    /\ globalAuthDoc = Null
    /\ shardAuthDocs = [s \in Shards |-> Null]
    /\ found = FALSE
    /\ result = NewResult
    /\ heap = <<>>
    /\ connections = <<>>
    /\ pc = "idle"
    /\ run = NoRun
    /\ op = [name |-> "load", threw |-> FALSE, val |-> 0]
    /\ log = EmptyLog
    /\ visited = <<>>
    /\ dirty = FALSE

\* a sharded cluster with the balancer stopped, a catalog of two chunks owned by B
\* and C, and documents in up to MaxCells cells, one of which may need two batches
Init ==
    /\ isdbgrid = TRUE
    /\ balancerState = FALSE /\ balancerRunning = FALSE
    /\ precise = TRUE
    /\ catalog = {[min |-> 0, max |-> 1, shard |-> "B"], [min |-> 1, max |-> 2, shard |-> "C"]}
    /\ delivered = SortByMin(catalog)
    /\ \E cnt \in Populations(1, BatchSize + MaxExtra) : docs = DocsOf(cnt)
    /\ active = {}
    /\ accepts = [s \in Shards |-> {}]
    /\ InitProgram

Next ==
    \/ find
    \/ next
    \/ rewind
    \/ listAll
    \/ remove
    \/ RemoveBatchHalts
    \/ RemoveBatchDeletes
    \/ RemoveBatchFails
    \/ removeAll
    \/ BalancerChanges
    \/ stopBalancer

Spec == Init /\ [][Next]_vars

\* Orphans.find alone, over every catalog, shard filter, comparison mode and state
\* of the preconditions
InitScan ==
    /\ isdbgrid \in BOOLEAN
    /\ balancerState \in BOOLEAN /\ balancerRunning \in BOOLEAN
    /\ precise \in BOOLEAN
    /\ catalog \in Catalogs
    /\ delivered = SortByMin(catalog)
    /\ \E cnt \in Populations(1, 2) : docs = DocsOf(cnt)
    /\ active \in SUBSET Shards
    /\ accepts = [s \in Shards |-> {}]
    /\ InitProgram

NextScan == find

SpecScan == InitScan /\ [][NextScan]_vars

\* a batch that is due is processed: the shell goes on executing the call it runs
RemoveBatch == RemoveBatchHalts \/ RemoveBatchDeletes \/ RemoveBatchFails

\* the clusters of Init whose documents all sit on shard A, which owns no chunk
InitLive ==
    /\ Init
    /\ \A s \in Shards \ {"A"} : docs[s] = <<>>

\* the cursor and removal operations, the shell never stopping in the middle of a call
SpecLive == InitLive /\ [][Next]_vars /\ WF_vars(RemoveBatch)

\* the sequences of the chunks of a catalog, in every order
Orders(cs) == {q \in [1..Cardinality(cs) -> cs] : {q[i] : i \in 1..Cardinality(cs)} = cs}

\* Orphans.find over a catalog whose cursor may hand the chunks on in any order
InitOrder ==
    /\ isdbgrid = TRUE
    /\ balancerState = FALSE /\ balancerRunning = FALSE
    /\ precise \in BOOLEAN
    /\ catalog \in Catalogs
    /\ delivered \in Orders(catalog)
    /\ \E cnt \in Populations(1, 2) : docs = DocsOf(cnt)
    /\ active = {}
    /\ accepts = [s \in Shards |-> {}]
    /\ InitProgram

NextOrder == find

SpecOrder == InitOrder /\ [][NextOrder]_vars

\* the cursor and removal operations with the paranoia setting under the caller's
\* control
InitParanoia == Init

NextParanoia ==
    \/ find
    \/ next
    \/ rewind
    \/ listAll
    \/ remove
    \/ RemoveBatchHalts
    \/ RemoveBatchDeletes
    \/ RemoveBatchFails
    \/ removeAll
    \/ setBalancerParanoia
    \/ BalancerChanges
    \/ stopBalancer

SpecParanoia == InitParanoia /\ [][NextParanoia]_vars

\* the credential operations and the connections made with them, in a cluster whose
\* shards accept any set of credentials; one orphan on shard A
InitAuth ==
    /\ isdbgrid = TRUE
    /\ balancerState = FALSE /\ balancerRunning = FALSE
    /\ precise = TRUE
    /\ catalog = {[min |-> 0, max |-> 1, shard |-> "B"], [min |-> 1, max |-> 2, shard |-> "C"]}
    /\ delivered = SortByMin(catalog)
    /\ docs = DocsOf([c \in Cells |-> IF c = <<"A", 0>> THEN 1 ELSE 0])
    /\ active = {}
    /\ accepts \in [Shards -> SUBSET AuthDocs]
    /\ InitProgram

NextAuth ==
    \/ globalAuth
    \/ shardAuth
    \/ shardConnection
    \/ find

SpecAuth == InitAuth /\ [][NextAuth]_vars
\* ================================================================== claims
\* a call that is not the environment's has just acted
ProgramStep == <<pc, run, op, log, docs, heap, result, visited>>' # <<pc, run, op, log, docs, heap, result, visited>>
\* find has just returned a result
FindReturned == found /\ pc = "idle" /\ op.name = "find" /\ ~op.threw
\* document d lies in chunk c
InChunk(d, c) == c.min <= KeyOf(d) /\ KeyOf(d) < c.max
\* the entries of badChunks that read chunk c's range, shard s and n orphans
EntriesFor(c, s, n) ==
    {k \in 1..Len(result.badChunks) :
        LET b == heap[result.badChunks[k]]
        IN b.min = c.min /\ b.max = c.max /\ b.orphanedOn = s /\ b.orphanCount = n}
RECURSIVE SumOfResults(_)
SumOfResults(attempts) ==
    IF attempts = <<>> THEN 0 ELSE Head(attempts)[2] + SumOfResults(Tail(attempts))

\* C1: after find returns, every chunk c and every connected shard s other than c's
\* owner holding n > 0 documents in [c.min, c.max) has exactly one badChunks entry
\* with c's range, orphanedOn s and orphanCount n
C1_OneEntryPerChunkAndShard ==
    FindReturned =>
        \A c \in catalog : \A s \in Range(connections) :
            (s # c.shard /\ Len(RangeDocs(s, c.min, c.max)) > 0)
                => Cardinality(EntriesFor(c, s, Len(RangeDocs(s, c.min, c.max)))) = 1

\* C2: on a result no delete has touched, a removeAll that meets no delete error and
\* is not halted returns the result's count, and the find that follows it returns
\* count 0 and no bad chunks
C2_RemoveAllRemovesCount ==
    [][/\ (ProgramStep /\ pc' = "idle" /\ op'.name = "removeAll" /\ ~op'.threw
                /\ log'.fresh /\ log'.errors = 0)
            => op'.val = result.count
       /\ (find /\ op.name = "removeAll" /\ ~op.threw /\ log.fresh /\ log.errors = 0
                /\ ~op'.threw)
            => (result'.count = 0 /\ result'.badChunks = <<>>)]_vars

\* C3: with paranoia on, a batch that falls due while the balancer is enabled or
\* running halts the run with an error: no bulk delete is issued, no chunk is marked
\* removed or unmarked, and nothing of the run goes on
C3_BalancerHaltsRun ==
    [][(pc = "remove" /\ paranoia /\ (balancerState \/ balancerRunning) /\ ProgramStep)
            => (/\ pc' = "idle" /\ op'.threw
                /\ op'.name = (IF run.inAll THEN "removeAll" ELSE "remove")
                /\ docs' = docs /\ log'.batches = log.batches /\ heap' = heap)]_vars
\* a removeAll halted between two batches of one chunk
C3_Witness ==
    /\ pc = "idle" /\ op.name = "removeAll" /\ op.threw
    /\ Len(log.batches) >= 1
    /\ log.batches[Len(log.batches)].index = result.iter
    /\ ~heap[current].removed
    /\ log.checks = Len(log.batches) + 1

\* C4: find called while the cluster does not answer the probe, or the balancer is
\* enabled, or the balancer is running, throws having connected to no shard, read no
\* chunk, queried no shard, and returns no result
C4_PreconditionsAbort ==
    (op.name = "find" /\ (~isdbgrid \/ balancerState \/ balancerRunning))
        => (/\ op.threw /\ ~found
            /\ log.connected = <<>> /\ log.chunksRead = 0 /\ log.ranged = {}
            /\ result = NewResult /\ heap = <<>>)
\* find has thrown on a populated cluster whose balancer is disabled but still running
C4_Witness ==
    /\ op.name = "find" /\ op.threw
    /\ isdbgrid /\ ~balancerState /\ balancerRunning
    /\ catalog # {} /\ \E s \in Shards : Len(docs[s]) > 0

\* no shard holds a document of a chunk it does not own
NoResidue == \A s \in Shards : \A c \in catalog :
                 \A i \in 1..Len(docs[s]) : InChunk(docs[s][i], c) => c.shard = s
\* the documents on connected shards that lie in a chunk the shard does not own
Residue == {<<s, d>> \in Range(connections) \X UNION {Range(docs[s]) : s \in Shards} :
               /\ d \in Range(docs[s])
               /\ \E c \in catalog : InChunk(d, c) /\ c.shard # s}

\* C5: over non-overlapping chunks find counts exactly the documents that lie on a
\* connected shard in a chunk the shard does not own (never a document on its chunk's
\* owner); with no such document anywhere the result has count 0, no bad chunks and
\* hasNext() false
C5_NoResidueNoOrphans ==
    (FindReturned /\ NonOverlapping(catalog))
        => (/\ result.count = Cardinality(Residue)
            /\ NoResidue => (result.count = 0 /\ result.badChunks = <<>> /\ ~hasNext))
\* find has queried non-owning shards of a cluster whose documents all sit on owners
C5_Witness ==
    /\ FindReturned /\ NonOverlapping(catalog) /\ NoResidue
    /\ log.ranged # {}
    /\ Cardinality({s \in Shards : Len(docs[s]) > 0}) >= 2

\* C6: remove() on a BadChunk already marked removed returns 0, issues no query and
\* no bulk delete, and leaves every removed and numRemoved as they were
C6_RemoveIdempotent ==
    [][(remove /\ current # Undefined /\ heap[current].removed)
            => (/\ pc' = "idle" /\ op'.name = "remove" /\ ~op'.threw /\ op'.val = 0
                /\ log'.ranged = {} /\ log'.batches = <<>>
                /\ heap' = heap /\ docs' = docs)]_vars
\* a second remove() has just returned 0 on a chunk whose first remove() deleted
C6_Witness ==
    /\ pc = "idle" /\ op.name = "remove" /\ op.val = 0
    /\ current # Undefined /\ heap[current].removed /\ heap[current].numRemoved > 0
    /\ log.attempts = <<<<result.iter, 0>>>>

\* C7: as long as next() is only called when hasNext() is true, the values returned
\* since the last rewind are badChunks[0..iter] in index order, hasNext() turns false
\* exactly when all have been returned, and no call but find changes badChunks
C7_IterationInOrder ==
    [][/\ (found' /\ result'.iter < Len(result'.badChunks))
            => (/\ visited' = SubSeq(result'.badChunks, 1, result'.iter + 1)
                /\ (Len(result'.badChunks) > result'.iter + 1)
                        <=> (Len(visited') < Len(result'.badChunks)))
       /\ (found /\ op'.name # "find") => result'.badChunks = result.badChunks]_vars
\* a full iteration over two or more chunks, after a remove()
C7_Witness ==
    /\ found /\ pc = "idle" /\ op.name = "next"
    /\ Len(result.badChunks) >= 2 /\ visited = result.badChunks /\ ~hasNext
    /\ \E r \in DOMAIN heap : heap[r].removed

C9_RemoveBeforeFirst ==
    [][(remove /\ visited = <<>>)
            => (/\ pc' = "idle" /\ op'.name = "remove" /\ ~op'.threw /\ op'.val = 0
                /\ log'.ranged = {} /\ log'.batches = <<>>
                /\ docs' = docs /\ heap' = heap
                /\ result'.iter = -1 /\ visited' = <<>>)]_vars
\* remove() has just returned 0 before-first on a result that has orphans
C9_Witness ==
    /\ pc = "idle" /\ op.name = "remove" /\ op.val = 0
    /\ result.iter = -1 /\ visited = <<>> /\ result.count > 0
    /\ \E r \in DOMAIN heap : ~heap[r].removed

\* C10 (as claimed): removeAll called with the cursor at index i starts no removal
\* at an index smaller than i
C10_RemoveAllFromCursor ==
    [][(removeAll /\ 0 <= result.iter /\ result.iter < Len(result.badChunks)
            /\ pc' = "remove")
            => result'.iter >= result.iter]_vars
\* C10 (amended): removeAll rewinds first: it calls remove() on every BadChunk from
\* index 0 on, in index order, up to the end, and returns the sum of their results
C10_RemoveAllFromStart ==
    /\ (pc = "remove" /\ run.inAll)
            => (/\ Len(log.attempts) = result.iter
                /\ run.num = SumOfResults(log.attempts))
    /\ (pc = "idle" /\ op.name = "removeAll" /\ ~op.threw)
            => (/\ Len(log.attempts) = Len(result.badChunks)
                /\ op.val = SumOfResults(log.attempts))
    /\ (pc = "remove" /\ run.inAll) \/ (pc = "idle" /\ op.name = "removeAll")
            => \A k \in 1..Len(log.attempts) : log.attempts[k][1] = k - 1
\* a removeAll over two or more chunks has returned what it deleted
C10_Witness ==
    /\ pc = "idle" /\ op.name = "removeAll" /\ ~op.threw
    /\ Len(log.attempts) >= 2 /\ op.val > 0

\* the number of identifiers in the first k bulk deletes of the log that reported no
\* error
RECURSIVE Committed(_)
Committed(k) ==
    IF k = 0 THEN 0
    ELSE (IF k \in log.failed THEN 0 ELSE Cardinality(log.batches[k].ids)) + Committed(k - 1)
\* the cursor indexes remove() was attempted on during the call
Attempted == {log.attempts[k][1] : k \in 1..Len(log.attempts)}

\* C11: a removeAll that met a delete error and was not halted has still attempted
\* remove() on every BadChunk, those after the failed one included, and returns the
\* number of documents in the bulk deletes that reported no error, the earlier
\* batches of the failed chunk among them
C11_ErrorDoesNotAbortRemoveAll ==
    (pc = "idle" /\ op.name = "removeAll" /\ ~op.threw /\ log.errors > 0)
        => (/\ \A i \in 0..(Len(result.badChunks) - 1) : i \in Attempted
            /\ \A k \in log.failed : \A i \in 0..(Len(result.badChunks) - 1) :
                   i > log.batches[k].index => i \in Attempted
            /\ op.val = Committed(Len(log.batches)))
\* removeAll has returned after one batch of a chunk succeeded, the next failed, and
\* a later chunk was deleted
C11_Witness ==
    /\ pc = "idle" /\ op.name = "removeAll" /\ ~op.threw
    /\ log.failed = {2} /\ Len(log.batches) = 3
    /\ log.batches[1].index = log.batches[2].index
    /\ log.batches[3].index > log.batches[2].index
    /\ op.val = BatchSize + 1

\* the number of identifiers in those of the first k bulk deletes of the log that were
\* issued for cursor index i and reported no error
RECURSIVE CommittedAt(_, _)
CommittedAt(i, k) ==
    IF k = 0 THEN 0
    ELSE (IF k \notin log.failed /\ log.batches[k].index = i
          THEN Cardinality(log.batches[k].ids) ELSE 0) + CommittedAt(i, k - 1)

\* C12: when a bulk delete of remove() reports an error, that delete is the last one
\* issued for the BadChunk, the chunk's removed flag stays unset (under removeAll,
\* unless a later remove() of the run has retried the same chunk object), no deleted
\* document comes back, and remove() returns the number of documents of the batches
\* that succeeded before it; no later batch of the call is issued for that BadChunk
C12_ErrorStopsChunk ==
    [][/\ (pc = "remove" /\ log'.errors > log.errors)
            => (/\ Len(log'.batches) = Len(log.batches) + 1
                /\ log'.batches[Len(log'.batches)].index = result.iter
                /\ ~run.inAll => (heap'[current] = heap[current] /\ ~heap'[current].removed)
                /\ heap'[current].removed
                        => \E k \in (Len(log.attempts) + 2)..Len(log'.attempts) :
                               BadChunkAt(log'.attempts[k][1]) = current
                /\ log'.attempts[Len(log.attempts) + 1]
                        = <<result.iter, CommittedAt(result.iter, Len(log.batches))>>
                /\ ~run.inAll => (/\ pc' = "idle" /\ op'.name = "remove" /\ ~op'.threw
                                  /\ op'.val = CommittedAt(result.iter, Len(log.batches)))
                /\ \A s \in Shards : Range(docs'[s]) \subseteq Range(docs[s])
                /\ \A k \in (1..Len(log.batches)) \ log.failed :
                       log.batches[k].ids \cap Range(docs'[log.batches[k].shard]) = {})
       /\ (Len(log'.batches) > Len(log.batches))
            => \A k \in log.failed :
                   log.batches[k].index # log'.batches[Len(log'.batches)].index]_vars
\* remove() has returned the size of its first batch after its second batch failed
C12_Witness ==
    /\ pc = "idle" /\ op.name = "remove" /\ ~op.threw
    /\ log.failed = {2} /\ Len(log.batches) = 2
    /\ op.val = BatchSize
    /\ ~heap[current].removed

\* the shards the active filter admits: all of them when the filter is empty
Admitted == IF active = {} THEN Shards ELSE {s \in Shards : s \in active}
\* shard s is connected by the scan and holds a document of the namespace
ConnectedNonEmpty(s) == s \in Range(log.connected) /\ s \in Admitted /\ Len(docs[s]) > 0

\* C13: a scan connects once to each shard the active filter admits and to no other,
\* and issues range queries only on connected shards that hold a document; every
\* orphanedOn of badChunks and every key of shardCounts is such a shard, so none lies
\* outside a non-empty filter
C13_ActiveFilter ==
    (op.name = "find" /\ ~op.threw)
        => (/\ Range(log.connected) = Admitted
            /\ Len(log.connected) = Cardinality(Admitted)
            /\ \A q \in log.ranged : ConnectedNonEmpty(q[1])
            /\ \A s \in Range(connections) : ConnectedNonEmpty(s)
            /\ \A k \in 1..Len(result.badChunks) :
                   ConnectedNonEmpty(heap[result.badChunks[k]].orphanedOn)
            /\ \A s \in DOMAIN result.shardCounts : ConnectedNonEmpty(s)
            /\ active # {} => (/\ \A k \in 1..Len(result.badChunks) :
                                      heap[result.badChunks[k]].orphanedOn \in active
                               /\ DOMAIN result.shardCounts \subseteq active))
\* find has reported orphans under a filter that leaves out a shard holding a document
\* of a chunk it does not own, and has skipped a connected shard that is empty
C13_Witness ==
    /\ FindReturned /\ active # {} /\ active # Shards
    /\ result.badChunks # <<>>
    /\ \E s \in Shards \ active : \E c \in catalog : \E i \in 1..Len(docs[s]) :
           InChunk(docs[s][i], c) /\ c.shard # s
    /\ \E s \in active : Len(docs[s]) = 0

\* the attempts of the last call that presented a credential of the given kind
AuthsOfKind(kind) == {k \in 1..Len(log.auths) : log.auths[k].kind = kind}

\* C14: shardConnection(shard) returns a connection without raising; when a
\* shard-specific credential is stored it is the first one presented; the global
\* credential is presented (once) exactly when one is configured and either no
\* shard-specific credential is stored or the shard rejected it
C14_ShardThenGlobalAuth ==
    (op.name = "shardConnection")
        => LET shard == log.connected[1]
               stored == shardAuthDocs[shard] # Null
           IN /\ ~op.threw /\ Len(log.connected) = 1
              /\ \A k \in 1..Len(log.auths) :
                    /\ log.auths[k].shard = shard
                    /\ log.auths[k].ok = (IF log.auths[k].doc \in accepts[shard] THEN 1 ELSE 0)
              /\ stored => (/\ Len(log.auths) >= 1
                            /\ log.auths[1].kind = "shard"
                            /\ log.auths[1].doc = shardAuthDocs[shard])
              /\ Cardinality(AuthsOfKind("shard")) = (IF stored THEN 1 ELSE 0)
              /\ Cardinality(AuthsOfKind("global")) <= 1
              /\ \A k \in AuthsOfKind("global") : log.auths[k].doc = globalAuthDoc
              /\ (AuthsOfKind("global") # {})
                    <=> (/\ globalAuthDoc # Null
                         /\ (~stored \/ shardAuthDocs[shard] \notin accepts[shard]))
              /\ Len(log.auths) = Cardinality(AuthsOfKind("shard") \cup AuthsOfKind("global"))
\* a connection was returned after the shard rejected its own credential and accepted
\* the global one
C14_Witness ==
    /\ op.name = "shardConnection" /\ ~op.threw
    /\ Len(log.auths) = 2
    /\ log.auths[1].kind = "shard" /\ log.auths[1].ok = 0
    /\ log.auths[2].kind = "global" /\ log.auths[2].ok = 1
\* a connection was returned although every credential presented was rejected
C14_WitnessAllFail ==
    /\ op.name = "shardConnection" /\ ~op.threw
    /\ Len(log.auths) = 2 /\ \A k \in 1..2 : log.auths[k].ok = 0

\* the documents shard s holds before and no longer holds after the step
Deleted(s) == Range(docs[s]) \ Range(docs'[s])

\* C15: every bulk delete goes to the orphanedOn shard of the BadChunk at the cursor
\* and names only documents that shard holds with key in the BadChunk's [min, max);
\* orphanedOn is never the chunk's owner as recorded by the scan; so every document
\* any step deletes was named by such a delete, lies in the range of a BadChunk on its
\* orphanedOn shard, and is not on the shard owning its chunk
C15_DeletesOnlyOrphans ==
    [][/\ (Len(log'.batches) > Len(log.batches))
            => LET b == log'.batches[Len(log'.batches)]
                   bchunk == heap[current]
               IN /\ Len(log'.batches) = Len(log.batches) + 1
                  /\ b.shard = bchunk.orphanedOn
                  /\ bchunk.orphanedOn # bchunk.shard
                  /\ \A d \in b.ids : d \in Range(docs[b.shard]) /\ InChunk(d, bchunk)
                  /\ \A s \in Shards : Deleted(s) \subseteq (IF s = b.shard THEN b.ids ELSE {})
       /\ (Len(log'.batches) = Len(log.batches) \/ log'.batches = <<>>)
            => \A s \in Shards : Deleted(s) = {}
       /\ \A s \in Shards : \A d \in Deleted(s) :
             /\ \A c \in catalog : InChunk(d, c) => c.shard # s
             /\ \E r \in DOMAIN heap : InChunk(d, heap[r]) /\ heap[r].orphanedOn = s
       /\ \A r \in DOMAIN heap' : heap'[r].orphanedOn # heap'[r].shard]_vars
\* orphans of a chunk have been deleted while the chunk's owner holds a document of
\* the same range
C15_Witness ==
    /\ pc = "idle" /\ op.name \in {"remove", "removeAll"} /\ log.failed = {}
    /\ \E k \in 1..Len(log.batches) :
          LET bchunk == heap[BadChunkAt(log.batches[k].index)]
          IN /\ log.batches[k].ids # {}
             /\ \E i \in 1..Len(docs[bchunk.shard]) : InChunk(docs[bchunk.shard][i], bchunk)

\* in the order of iteration (ascending min) chunk c comes after a chunk whose max is
\* not smaller than c's
AlreadySeen(c) == \E d \in catalog : d.min < c.min /\ d.max >= c.max

\* C16: in exact-comparison mode a chunk whose max does not exceed the max of every
\* chunk iterated before it is skipped: no shard is queried for its range, no entry of
\* badChunks carries it, and no document is counted more than once
C16_SeenChunkSkipped ==
    (FindReturned /\ precise)
        => (/\ \A c \in catalog : AlreadySeen(c)
                  => (/\ \A s \in Shards : <<s, c.min, c.max>> \notin log.ranged
                      /\ \A k \in 1..Len(result.badChunks) :
                             ~(/\ heap[result.badChunks[k]].min = c.min
                               /\ heap[result.badChunks[k]].max = c.max))
            /\ result.count <= Cardinality(Residue))

\* C17: with paranoia on every bulk delete follows a balancer check of its own that
\* found the balancer disabled and not running (a call's checks are its deletes, plus
\* the failed check when it was halted); with paranoia off a call makes no check,
\* is never halted, and its next bulk delete is issued whatever the balancer's state
C17_ParanoiaIffCheck ==
    [][/\ (Len(log'.batches) > Len(log.batches))
            => IF paranoia
               THEN log'.checks = log.checks + 1 /\ ~balancerState /\ ~balancerRunning
               ELSE log'.checks = log.checks
       /\ (paranoia /\ log' # log)
            => log'.checks = Len(log'.batches)
                    + (IF pc = "remove" /\ pc' = "idle" /\ op'.threw THEN 1 ELSE 0)
       /\ (~paranoia /\ log' # log) => log'.checks = 0
       /\ (~paranoia /\ pc = "remove" /\ ProgramStep)
            => (/\ ~(pc' = "idle" /\ op'.threw)
                /\ Len(log'.batches) = Len(log.batches) + 1)]_vars
\* with paranoia off a remove() has deleted, unchecked, while the balancer was enabled
C17_Witness ==
    /\ ~paranoia /\ pc = "idle" /\ op.name = "remove" /\ ~op.threw
    /\ Len(log.batches) >= 1 /\ log.failed = {} /\ log.checks = 0
    /\ balancerState
    /\ heap[current].removed /\ heap[current].numRemoved > 0

\* the identifiers the bulk deletes of log lg carry for cursor index i
SentIn(lg, i) == UNION {lg.batches[k].ids : k \in {j \in 1..Len(lg.batches) : lg.batches[j].index = i}}
\* the documents of the BadChunk at cursor index i that its orphanedOn shard holds in dcs
InRangeOn(dcs, hp, i) ==
    LET bchunk == hp[result.badChunks[i + 1]]
    IN {d \in Range(dcs[bchunk.orphanedOn]) : InChunk(d, bchunk)}

\* C18: a remove() run starts from exactly the documents of the range query; each of
\* its bulk deletes carries between 1 and 100 of the identifiers not yet sent, none of
\* them sent before, a batch followed by another being full; a run that completes
\* without error has sent them all, and returns and records in numRemoved their number
C18_BatchesPartitionQuery ==
    [][/\ (pc' = "remove" /\ (pc = "idle" \/ result'.iter # result.iter))
            => (/\ Range(run'.toRemove) = InRangeOn(docs', heap', result'.iter)
                /\ Len(run'.toRemove) = Cardinality(Range(run'.toRemove))
                /\ run'.removedCount = 0
                /\ SentIn(log', result'.iter) = {})
       /\ (pc = "remove" /\ Len(log'.batches) > Len(log.batches))
            => LET ids == log'.batches[Len(log'.batches)].ids
                   goesOn == pc' = "remove" /\ result'.iter = result.iter
               IN /\ Cardinality(ids) >= 1 /\ Cardinality(ids) <= BatchSize
                  /\ ids \subseteq Range(run.toRemove)
                  /\ ids \cap SentIn(log, result.iter) = {}
                  /\ run.removedCount = Cardinality(SentIn(log, result.iter))
                  /\ goesOn => (/\ Cardinality(ids) = BatchSize
                                /\ Range(run'.toRemove) = Range(run.toRemove) \ ids
                                /\ run'.removedCount = run.removedCount + Cardinality(ids)
                                /\ log'.errors = log.errors)
                  /\ (~goesOn /\ log'.errors = log.errors)
                        => (/\ ids = Range(run.toRemove)
                            /\ InRangeOn(docs', heap, result.iter) = {}
                            /\ log'.attempts[Len(log.attempts) + 1]
                                    = <<result.iter, Cardinality(SentIn(log', result.iter))>>
                            /\ heap'[current].removed
                            /\ heap'[current].numRemoved = Cardinality(SentIn(log', result.iter))
                            /\ ~run.inAll => op'.val = Cardinality(SentIn(log', result.iter)))]_vars
\* a remove() over more than one batch of documents has completed: a full batch, then
\* the rest
C18_Witness ==
    /\ pc = "idle" /\ op.name = "remove" /\ ~op.threw
    /\ Len(log.batches) = 2 /\ log.failed = {}
    /\ Cardinality(log.batches[1].ids) = BatchSize
    /\ Cardinality(log.batches[2].ids) = MaxExtra
    /\ op.val = BatchSize + MaxExtra
    /\ heap[current].removed /\ heap[current].numRemoved = op.val

\* the fields of a chunk object that describe the scan's finding
Finding(b) == <<b.min, b.max, b.shard, b.orphanedOn, b.orphanCount>>

\* C19: once find has returned a result, no step other than a new find changes the
\* result's count, shardCounts or badChunks sequence, nor the min, max, owning shard,
\* orphanedOn or orphanCount of any entry (nor the scan's maxRange and lastMin): only
\* the cursor index and the removed and numRemoved fields change
C19_ResultFrame ==
    [][(found /\ ~find)
            => (/\ found'
                /\ result'.count = result.count
                /\ result'.shardCounts = result.shardCounts
                /\ result'.badChunks = result.badChunks
                /\ result'.maxRange = result.maxRange /\ result'.lastMin = result.lastMin
                /\ DOMAIN heap' = DOMAIN heap
                /\ \A r \in DOMAIN heap : Finding(heap'[r]) = Finding(heap[r])
                /\ connections' = connections)]_vars
\* a removal has marked a chunk of the result removed and moved the cursor, the
\* findings standing as the scan reported them
C19_Witness ==
    /\ found /\ pc = "idle" /\ op.name \in {"remove", "removeAll"}
    /\ result.iter >= 0 /\ result.count > 0
    /\ \E r \in DOMAIN heap : /\ heap[r].removed /\ heap[r].numRemoved > 0
                              /\ heap[r].orphanCount > 0

\* the sum of orphanCount over the first k entries of badChunks whose orphanedOn is
\* among the shards ss
RECURSIVE SumOrphanCount(_, _)
SumOrphanCount(ss, k) ==
    IF k = 0 THEN 0
    ELSE LET b == heap[result.badChunks[k]]
         IN (IF b.orphanedOn \in ss THEN b.orphanCount ELSE 0) + SumOrphanCount(ss, k - 1)

\* C20: in every result find returns, count is the sum of the orphanCount of the
\* entries of badChunks, and shardCounts[s] is the sum over the entries whose
\* orphanedOn is s, s being absent from shardCounts exactly when that sum is 0
C20_CountsAreSums ==
    FindReturned
        => (/\ result.count = SumOrphanCount(Shards, Len(result.badChunks))
            /\ \A s \in Shards :
                  LET sum == SumOrphanCount({s}, Len(result.badChunks))
                  IN IF sum = 0 THEN s \notin DOMAIN result.shardCounts
                     ELSE s \in DOMAIN result.shardCounts /\ result.shardCounts[s] = sum)

\* the largest max among the first n chunks delivered (EmptyObj when n = 0)
MaxBefore(n) ==
    IF n = 0 THEN EmptyObj
    ELSE CHOOSE m \in {delivered[j].max : j \in 1..n} :
             \A j \in 1..n : delivered[j].max <= m
\* the i-th chunk delivered brings no larger max than the chunks before it, and its min
\* is smaller than the min of the first chunk that brought that max
OrderAnomaly(i) ==
    /\ i > 1
    /\ delivered[i].max <= MaxBefore(i - 1)
    /\ LET setter == CHOOSE j \in 1..(i - 1) :
                         /\ delivered[j].max = MaxBefore(i - 1)
                         /\ \A k \in 1..(j - 1) : delivered[k].max < MaxBefore(i - 1)
       IN delivered[i].min < delivered[setter].min
\* the position of the first chunk delivered that is an order anomaly, 0 if there is none
FirstAnomaly ==
    IF \E i \in 1..Len(delivered) : OrderAnomaly(i)
    THEN CHOOSE i \in 1..Len(delivered) :
             OrderAnomaly(i) /\ \A j \in 1..(i - 1) : ~OrderAnomaly(j)
    ELSE 0

C22_RemoveAllTerminates ==
    /\ (pc = "remove" /\ run.inAll) ~> (pc = "idle" /\ op.name = "removeAll")
    /\ []((pc = "idle" /\ op.name = "removeAll" /\ ~op.threw)
            => (/\ log.attempts
                     = [k \in 1..Len(result.badChunks) |-> <<k - 1, log.attempts[k][2]>>]
                /\ result.iter = Len(result.badChunks) - 1
                /\ ~hasNext))
\* a removeAll over two BadChunks has returned after at least three bulk deletes, the
\* cursor on the last BadChunk
C22_Witness ==
    /\ pc = "idle" /\ op.name = "removeAll" /\ ~op.threw
    /\ Len(result.badChunks) = 2 /\ result.iter = 1 /\ ~hasNext
    /\ Len(log.batches) >= 3

\* C23: listAll() prints the BadChunks of the result, each once, in index order, and
\* leaves the cursor before-first wherever it was before; a remove() that directly
\* follows a listAll() returns 0, issues no query and no delete, and marks nothing
C23_ListAllRewinds ==
    [][/\ listAll
            => (/\ log'.printed = result.badChunks
                /\ result'.iter = -1 /\ ~op'.threw
                /\ result'.badChunks = result.badChunks
                /\ heap' = heap /\ docs' = docs)
       /\ (op.name = "listAll" /\ remove)
            => (/\ pc' = "idle" /\ op'.name = "remove" /\ ~op'.threw /\ op'.val = 0
                /\ log'.ranged = {} /\ log'.batches = <<>>
                /\ docs' = docs /\ heap' = heap)]_vars
\* listAll() has printed two or more chunks of a result whose cursor had been moved
\* and used for a removal, and has left the cursor before-first
C23_Witness ==
    /\ found /\ pc = "idle" /\ op.name = "listAll"
    /\ Len(log.printed) >= 2 /\ log.printed = result.badChunks
    /\ result.iter = -1
    /\ \E r \in DOMAIN heap : heap[r].removed
    /\ \E r \in DOMAIN heap : ~heap[r].removed
====
